---- MODULE Spec2Model ----
(***************************************************************************)
(* A model of bentoml/tensorflow.py: the restored-function wrapper         *)
(* (_tf_function_wrapper), the loader (load), the persister (save), the    *)
(* hub import (import_from_tfhub) and the runner (_TensorflowRunner).      *)
(*                                                                         *)
(* Four specifications share the variables below:                          *)
(*   SpecWrapper  one wrapper is constructed and then called once;         *)
(*   SpecStore    saves, loads and the hub imports of one thread;          *)
(*   SpecImport   the hub imports of two threads of one process;           *)
(*   SpecRunner   one runner is constructed, set up and used.              *)
(***************************************************************************)
EXTENDS Integers, Sequences, FiniteSets, TLC

VARIABLES
    \* ---- _tf_function_wrapper -------------------------------------------
    wpc,          \* "new" | "built" | "called"
    ctor,         \* the constructor's arguments (arg_names, arg_specs, kwarg_specs)
    w,            \* the wrapper's attributes after __init__
    call,         \* the arguments of the __call__ (args, kwargs)
    outcome,      \* what __call__ did: a return value or the exception raised
    originCalls,  \* the invocations origin_func received, in order
    casts,        \* the cast_tensor_by_spec calls made, in order
    \* ---- the process and the model store -------------------------------
    TF2,            \* the module constant TF2 (line 45)
    hubInstalled,   \* whether tensorflow_hub could be imported (hub is not None)
    entries,        \* the registry: the entries registered so far, by number
    tfhubCacheDir,  \* os.environ["TFHUB_CACHE_DIR"]: 0 (unset) or an entry's path
    ipc,            \* per thread: where its import_from_tfhub call stands
    ireq,           \* per thread: the identifier and name it was called with
    ictx,           \* per thread: the entry its register scope opened (0: none)
    ifpath,         \* per thread: what resolve returned
    iret,           \* per thread: what the last import_from_tfhub call returned
    lastSave,       \* the last save call and its result
    loadRes,        \* the last load call and its result
    \* ---- _TensorflowRunner ---------------------------------------------
    numGpus,        \* the GPU devices of the host
    hasListPhysicalDevices,  \* whether tf.config.list_physical_devices exists
    visibleGpus,    \* what tf.config.set_visible_devices was last given
    rpc,            \* "none" | "constructed" | "failed"
    ctorArgs,       \* the arguments of _TensorflowRunner(...)
    ctorRes,        \* "none" | "ok" | "AssertionError"
    runner,         \* the runner object's attributes
    configureCalls, \* how often _configure has run in this process
    loadCalls,      \* how often the runner has called load
    setupRes,       \* what _setup did: "none" | "ok" | the exception raised
    propRes,        \* the last access of a derived property and its result
    runRes          \* the last _run_batch call and its result

wrapperVars == <<wpc, ctor, w, call, outcome, originCalls, casts>>

procVars == <<TF2, hubInstalled>>

importVars == <<tfhubCacheDir, ipc, ireq, ictx, ifpath, iret>>

storeVars == <<entries, importVars, lastSave, loadRes>>

hostVars == <<numGpus, hasListPhysicalDevices>>

runnerVars == <<visibleGpus, rpc, ctorArgs, ctorRes, runner, configureCalls,
                loadCalls, setupRes, propRes, runRes>>

vars == <<wrapperVars, procVars, storeVars, hostVars, runnerVars>>

----------------------------------------------------------------------------
(* Bounds *)

\* longest positional list (arg_names, arg_specs, args)
MaxArgs == 2
\* most keyword arguments in one call
MaxKw == 2
\* most entries ever registered in the store (saves and imports together)
MaxEntries == 2
\* most GPU devices of the host
MaxGpus == 2
\* largest CPU quota, in quarters of a CPU
MaxCpuQuarters == 6
\* most _setup calls on one runner (a failed _setup may be tried again)
MaxSetups == 2

----------------------------------------------------------------------------
(* Python values *)

\* Optional[...]: None, or a value
None == [some |-> FALSE, v |-> <<>>]
Some(x) == [some |-> TRUE, v |-> x]

Min(a, b) == IF a <= b THEN a ELSE b

Range(s) == {s[i] : i \in 1..Len(s)}

SeqsUpTo(S, n) == UNION {[1..k -> S] : k \in 0..n}

\* sequences without repetition
DistinctSeqsUpTo(S, n) ==
    {s \in SeqsUpTo(S, n) : \A i, j \in 1..Len(s) : s[i] = s[j] => i = j}

\* a dict: a function on a finite set of keys
Dicts(K, V) == UNION {[D -> V] : D \in SUBSET K}

\* d1.update(d2)
DictUpdate(d1, d2) ==
    [k \in DOMAIN d1 \cup DOMAIN d2 |-> IF k \in DOMAIN d2 THEN d2[k] ELSE d1[k]]

\* dict(zip(ks, vs)): zip stops at the shorter of the two
DictOfZip(ks, vs) ==
    LET n == Min(Len(ks), Len(vs))
    IN  [k \in {ks[i] : i \in 1..n} |->
            vs[CHOOSE i \in 1..n : ks[i] = k /\ \A j \in (i + 1)..n : ks[j] # k]]

----------------------------------------------------------------------------
(* _tf_function_wrapper *)

ParamNames == {"a", "b", "c"}

NameIndex(k) == CASE k = "a" -> 1 [] k = "b" -> 2 [] OTHER -> 3

\* element types: "raw" is a value that is not a tensor yet
PosSpecs == {"f32"}
KwSpecs == {"i32"}
ArgDtypes == {"raw", "f32"}

\* the i-th positional argument carries its position, a keyword argument its key
PosArgs == {s \in SeqsUpTo([data : 1..(MaxArgs + 1), dtype : ArgDtypes], MaxArgs) :
               \A i \in 1..Len(s) : s[i].data = i}

KwArg(k) == [key |-> k, val |-> [data |-> 10 + NameIndex(k), dtype |-> "raw"]]

\* **kwargs, in the order the caller wrote them
KwArgs == {[i \in 1..Len(ks) |-> KwArg(ks[i])] : ks \in DistinctSeqsUpTo(ParamNames, MaxKw)}

KwKeys(kwargs) == {kwargs[i].key : i \in 1..Len(kwargs)}

\* cast_tensor_by_spec: a value of the spec's type is left as it is, any other
\* value is converted to it
cast_tensor_by_spec(arg, spec) ==
    IF arg.dtype = spec THEN arg ELSE [data |-> arg.data, dtype |-> spec]

\* origin_func: its result is determined by what it was called with
origin_func(args, kwargs) == [result_of |-> <<args, kwargs>>]

NoOutcome == [kind |-> "none", msg |-> "", keys |-> {}, value |-> <<>>]
Returned(x) == [kind |-> "return", msg |-> "", keys |-> {}, value |-> x]
Raised(exc, msg, keys) == [kind |-> exc, msg |-> msg, keys |-> keys, value |-> <<>>]

\* __init__
WrapperInitAttrs(arg_names, arg_specs, kwarg_specs) ==
    [arg_names   |-> arg_names,
     arg_specs   |-> arg_specs,
     kwarg_specs |-> Some(DictUpdate(
                        DictOfZip(IF arg_names.some THEN arg_names.v ELSE <<>>,
                                  IF arg_specs.some THEN arg_specs.v ELSE <<>>),
                        IF kwarg_specs.some THEN kwarg_specs.v ELSE <<>>))]

Construct ==
    /\ wpc = "new"
    /\ \E arg_names \in {None} \cup {Some(s) : s \in DistinctSeqsUpTo(ParamNames, MaxArgs)},
          arg_specs \in {None} \cup {Some(s) : s \in SeqsUpTo(PosSpecs, MaxArgs)},
          kwarg_specs \in {None} \cup {Some(d) : d \in Dicts(ParamNames, KwSpecs)} :
          /\ ctor' = [arg_names |-> arg_names, arg_specs |-> arg_specs,
                      kwarg_specs |-> kwarg_specs]
          /\ w' = WrapperInitAttrs(arg_names, arg_specs, kwarg_specs)
    /\ wpc' = "built"
    /\ UNCHANGED <<call, outcome, originCalls, casts>>
    /\ UNCHANGED <<procVars, storeVars, hostVars, runnerVars>>

\* line 108: the pass-through test
NoSpecsRecorded(self) == ~self.arg_specs.some /\ ~self.kwarg_specs.some

\* a slip: the keyword is looked up among the parameter names, not in the lookup
UnknownKwargs_ByName(self, kwargs) ==
    SelectSeq(kwargs, LAMBDA kw :
        kw.key \notin (IF self.arg_names.some THEN Range(self.arg_names.v) ELSE {}))

\* lines 111-113: the keyword arguments the lookup does not know, in call order
UnknownKwargs(self, kwargs) ==
    SelectSeq(kwargs, LAMBDA kw : kw.key \notin DOMAIN self.kwarg_specs.v)

\* a slip: every parameter name, not only those of the arguments given by position
ArgKeys_AllNames(self, args) == Range(self.arg_names.v)

\* line 115: the names of the parameters given by position
ArgKeys(self, args) ==
    {self.arg_names.v[i] : i \in 1..Min(Len(self.arg_names.v), Len(args))}

\* lines 123-125: zip(args, self.arg_specs)
TransformedArgs(self, args) ==
    [i \in 1..Min(Len(args), Len(self.arg_specs.v)) |->
        cast_tensor_by_spec(args[i], self.arg_specs.v[i])]

\* lines 127-130
TransformedKwargs(self, kwargs) ==
    [i \in 1..Len(kwargs) |->
        [key |-> kwargs[i].key,
         val |-> cast_tensor_by_spec(kwargs[i].val, self.kwarg_specs.v[kwargs[i].key])]]

CastLog(self, args, kwargs) ==
    [i \in 1..Min(Len(args), Len(self.arg_specs.v)) |-> <<args[i], self.arg_specs.v[i]>>]
    \o [i \in 1..Len(kwargs) |-> <<kwargs[i].val, self.kwarg_specs.v[kwargs[i].key]>>]

\* __call__: [outcome, originCalls, casts]
CallResult(self, args, kwargs) ==
    IF NoSpecsRecorded(self)
    THEN [outcome |-> Returned(origin_func(args, kwargs)),
          originCalls |-> <<<<args, kwargs>>>>, casts |-> <<>>]
    ELSE IF UnknownKwargs(self, kwargs) # <<>>
    THEN [outcome |-> Raised("TypeError", "unexpected keyword argument",
                             {UnknownKwargs(self, kwargs)[1].key}),
          originCalls |-> <<>>, casts |-> <<>>]
    ELSE IF ~self.arg_names.some
    THEN \* zip(None, args)
         [outcome |-> Raised("TypeError", "not iterable", {}),
          originCalls |-> <<>>, casts |-> <<>>]
    ELSE IF ArgKeys(self, args) \cap KwKeys(kwargs) # {}
    THEN [outcome |-> Raised("TypeError", "got two values for arguments",
                             ArgKeys(self, args) \cap KwKeys(kwargs)),
          originCalls |-> <<>>, casts |-> <<>>]
    ELSE IF ~self.arg_specs.some
    THEN \* zip(args, None)
         [outcome |-> Raised("TypeError", "not iterable", {}),
          originCalls |-> <<>>, casts |-> <<>>]
    ELSE [outcome |-> Returned(origin_func(TransformedArgs(self, args),
                                           TransformedKwargs(self, kwargs))),
          originCalls |-> <<<<TransformedArgs(self, args),
                              TransformedKwargs(self, kwargs)>>>>,
          casts |-> CastLog(self, args, kwargs)]

Call ==
    /\ wpc = "built"
    /\ \E args \in PosArgs, kwargs \in KwArgs :
          LET r == CallResult(w, args, kwargs)
          IN  /\ call' = [args |-> args, kwargs |-> kwargs]
              /\ outcome' = r.outcome
              /\ originCalls' = r.originCalls
              /\ casts' = r.casts
    /\ wpc' = "called"
    /\ UNCHANGED <<ctor, w>>
    /\ UNCHANGED <<procVars, storeVars, hostVars, runnerVars>>

WrapperIdle ==
    /\ wpc = "new"
    /\ ctor = [arg_names |-> None, arg_specs |-> None, kwarg_specs |-> None]
    /\ w = WrapperInitAttrs(None, None, None)
    /\ call = [args |-> <<>>, kwargs |-> <<>>]
    /\ outcome = NoOutcome
    /\ originCalls = <<>>
    /\ casts = <<>>

----------------------------------------------------------------------------
(* The model store (model_store.register / model_store.get)                *)

\* a name or an identifier is the sequence of its segments
SaveNames == {<<"m1">>}

NoOptions == [model |-> "", local_path |-> [dir |-> 0, key |-> <<>>]]

\* register(...): a new entry is opened; its number is its version and its path
RegisterEnter(es, name, hub) ==
    Append(es, [name |-> name, hub |-> hub, state |-> "open",
                content |-> {}, options |-> NoOptions])

\* the register scope is left without an error: the entry is finalized
RegisterCommit(es, id) == [es EXCEPT ![id].state = "committed"]

\* the register scope is left by an exception: the entry is dropped
RegisterAbort(es, id) == [es EXCEPT ![id].state = "discarded", ![id].content = {}]

Committed(es) == {i \in 1..Len(es) : es[i].state = "committed"}

TagOf(es, id) == <<es[id].name, id>>

----------------------------------------------------------------------------
(* save *)

\* the model argument: a path (a directory, a file, or nothing there) or a model
SaveModels ==
    {[pathlike |-> TRUE,  exists |-> TRUE,  isdir |-> TRUE,  what |-> "dir"],
     [pathlike |-> TRUE,  exists |-> TRUE,  isdir |-> FALSE, what |-> "file"],
     [pathlike |-> TRUE,  exists |-> FALSE, isdir |-> FALSE, what |-> "missing"],
     [pathlike |-> FALSE, exists |-> FALSE, isdir |-> FALSE, what |-> "tf.Module"]}

NoSave == [id |-> 0, name |-> <<>>, model |-> "", result |-> "none", tag |-> <<>>]

\* a slip: os.path.exists in place of os.path.isdir
PathAccepted_Exists(model) == model.exists

\* line 353: assert os.path.isdir(model)
PathAccepted(model) == model.isdir

\* lines 344-367: [entries, result, tag]
SaveResult(es, name, model) ==
    LET id == Len(es) + 1
        opened == RegisterEnter(es, name, FALSE)
    IN  IF model.pathlike
        THEN IF PathAccepted(model)
             THEN [entries |-> RegisterCommit(
                                  [opened EXCEPT ![id].content = {"copy_tree"}], id),
                   result |-> "tag", tag |-> TagOf(opened, id)]
             ELSE [entries |-> RegisterAbort(opened, id),
                   result |-> "AssertionError", tag |-> <<>>]
        ELSE [entries |-> RegisterCommit(
                             [opened EXCEPT ![id].content = {"saved_model"}], id),
              result |-> "tag", tag |-> TagOf(opened, id)]

Save ==
    /\ Len(entries) < MaxEntries
    /\ \E name \in SaveNames, model \in SaveModels :
          LET r == SaveResult(entries, name, model)
          IN  /\ entries' = r.entries
              /\ lastSave' = [id |-> Len(entries) + 1, name |-> name,
                              model |-> model.what, result |-> r.result, tag |-> r.tag]
    /\ UNCHANGED <<wrapperVars, procVars, hostVars, runnerVars, importVars, loadRes>>

----------------------------------------------------------------------------
(* load *)

LoadAsWrapper == {"None", "True", "False"}

NoLoad == [id |-> 0, law |-> "None", kind |-> "none", calls |-> {}, tags |-> "None"]

Loaded(id, law, kind, calls, tags) ==
    [id |-> id, law |-> law, kind |-> kind, calls |-> calls, tags |-> tags]

\* a slip: None is read as False, so the raw module is loaded
ChoiceMissing_Never(law) == FALSE

\* line 201: assert load_as_wrapper is not None
ChoiceMissing(law) == law = "None"

\* lines 199-244. tfhub_tags is "None" or "given", tfhub_options a boolean (given
\* or not); isV1 is tf.io.gfile.exists(module proto path), hasLoadOptions is
\* hasattr(tf.saved_model, "LoadOptions"), both read when load runs.
LoadResult(es, id, tfhub_tags, tfhub_options, law, isV1, hasLoadOptions) ==
    IF id \notin Committed(es)
    THEN Loaded(id, law, "NotFound", {}, "None")
    ELSE IF es[id].hub
    THEN IF ChoiceMissing(law)
         THEN Loaded(id, law, "AssertionError", {}, "None")
         ELSE IF ~hubInstalled
         THEN \* hub and native_module are None
              Loaded(id, law, "AttributeError", {}, "None")
         ELSE IF law = "True"
         THEN Loaded(id, law, IF TF2 THEN "hub.KerasLayer" ELSE "hub.Module",
                     {"wrapper_class"}, "None")
         ELSE LET tags == IF tfhub_tags = "None" /\ isV1 THEN "[]" ELSE tfhub_tags
              IN  IF tfhub_options /\ ~hasLoadOptions
                  THEN Loaded(id, law, "NotImplementedError", {"gfile.exists"}, tags)
                  ELSE Loaded(id, law, "SavedModel", {"gfile.exists", "load_v2"}, tags)
    ELSE Loaded(id, law, "model", {"_load_tf_saved_model", "hook_loaded_model"}, "None")

\* load_as_wrapper is read only for a hub-sourced entry that model_store.get found
LoadChoices(es, id) ==
    IF id \in Committed(es) /\ es[id].hub THEN LoadAsWrapper ELSE {"None"}

\* the arguments and file-system facts that only the raw hub load reads
RawLoadInputs(es, id, law) ==
    IF id \in Committed(es) /\ es[id].hub /\ law = "False"
    THEN [tfhub_tags : {"None", "given"}, tfhub_options : BOOLEAN,
          isV1 : BOOLEAN, hasLoadOptions : BOOLEAN]
    ELSE {[tfhub_tags |-> "None", tfhub_options |-> FALSE,
           isV1 |-> FALSE, hasLoadOptions |-> TRUE]}

Load ==
    /\ \E id \in 1..MaxEntries :
          \E law \in LoadChoices(entries, id) :
             \E x \in RawLoadInputs(entries, id, law) :
                loadRes' = LoadResult(entries, id, x.tfhub_tags, x.tfhub_options,
                                      law, x.isV1, x.hasLoadOptions)
    /\ UNCHANGED <<wrapperVars, procVars, hostVars, runnerVars, entries, importVars,
                   lastSave>>

----------------------------------------------------------------------------
(* import_from_tfhub *)

Threads == {"t1", "t2"}

\* identifier: a remote handle (a string, split at "/"), or a module object
\* with or without an export method
ImportIdentifiers ==
    {[str |-> TRUE,  export |-> FALSE, cls |-> "str",
      segs |-> <<"https:", "", "tfhub.dev", "g", "m1">>],
     [str |-> FALSE, export |-> TRUE,  cls |-> "Module",     segs |-> <<>>],
     [str |-> FALSE, export |-> FALSE, cls |-> "KerasLayer", segs |-> <<>>]}

NoRequest == [identifier |-> [str |-> FALSE, export |-> FALSE, cls |-> "", segs |-> <<>>],
              name |-> <<>>]

NoPath == [dir |-> 0, key |-> <<>>]

\* lines 265-272: the name when none is given. _clean_name turns each "/" into "_":
\* the segments stay; uuid4 is one fixed token here.
ImportName(identifier, name) ==
    IF name.some THEN name.v
    ELSE IF identifier.str
    THEN IF identifier.segs[1] \in {"http:", "https:"}
         THEN SubSeq(identifier.segs, 4, Len(identifier.segs))
         ELSE <<identifier.segs[Len(identifier.segs)]>>
    ELSE <<identifier.cls, "UUID4">>

\* resolve(handle): a remote handle is downloaded below the directory that
\* TFHUB_CACHE_DIR names at that moment; a local path is returned as it is
resolve(handle, cacheDir) == [dir |-> cacheDir, key |-> handle]

resolve_local(path) == [dir |-> path, key |-> <<>>]

\* a slip: the variable is set to the store's root, not to the entry's path
CacheDirOf_Root(ctxPath) == 0

\* line 281: str(ctx.path)
CacheDirOf(ctxPath) == ctxPath

\* lines 254-279: the dependency check, the name, and the register scope entered
ImportBegin(t) ==
    /\ ipc[t] = "idle"
    /\ \E identifier \in ImportIdentifiers, name \in {None, Some(<<"m1">>)} :
          IF ~hubInstalled
          THEN /\ iret' = [iret EXCEPT ![t] = "MissingDependencyException"]
               /\ UNCHANGED <<entries, ipc, ireq, ictx>>
          ELSE /\ Len(entries) < MaxEntries
               /\ entries' = RegisterEnter(entries, ImportName(identifier, name), TRUE)
               /\ ictx' = [ictx EXCEPT ![t] = Len(entries) + 1]
               /\ ireq' = [ireq EXCEPT ![t] = [identifier |-> identifier,
                                               name |-> ImportName(identifier, name)]]
               /\ ipc' = [ipc EXCEPT ![t] = "registered"]
               /\ iret' = [iret EXCEPT ![t] = "running"]
    /\ UNCHANGED <<wrapperVars, procVars, hostVars, runnerVars, tfhubCacheDir, ifpath, lastSave, loadRes>>

\* line 281
ImportSetEnv(t) ==
    /\ ipc[t] = "registered"
    /\ ireq[t].identifier.str
    /\ tfhubCacheDir' = CacheDirOf(ictx[t])
    /\ ipc' = [ipc EXCEPT ![t] = "env_set"]
    /\ UNCHANGED <<wrapperVars, procVars, hostVars, runnerVars, entries, ireq, ictx, ifpath, iret,
                   lastSave, loadRes>>

\* lines 282-283: resolve downloads into the cache directory and returns the path
ImportResolve(t) ==
    /\ ipc[t] = "env_set"
    /\ LET fpath == resolve(ireq[t].identifier.segs, tfhubCacheDir)
           fetched == IF tfhubCacheDir \in 1..Len(entries)
                      THEN [entries EXCEPT ![tfhubCacheDir].content = @ \cup {"hub_download"}]
                      ELSE entries
       IN  /\ ifpath' = [ifpath EXCEPT ![t] = fpath]
           /\ entries' = [fetched EXCEPT ![ictx[t]].options =
                             [model |-> "identifier", local_path |-> fpath]]
    /\ ipc' = [ipc EXCEPT ![t] = "resolved"]
    /\ UNCHANGED <<wrapperVars, procVars, hostVars, runnerVars, tfhubCacheDir, ireq, ictx, iret,
                   lastSave, loadRes>>

\* lines 285-297: a module object is exported or saved into the entry's path
ImportObject(t) ==
    /\ ipc[t] = "registered"
    /\ ~ireq[t].identifier.str
    /\ LET fpath == resolve_local(ictx[t])
       IN  /\ ifpath' = [ifpath EXCEPT ![t] = fpath]
           /\ entries' = [entries EXCEPT
                 ![ictx[t]].content = @ \cup {IF ireq[t].identifier.export
                                              THEN "hub_export" ELSE "saved_model"},
                 ![ictx[t]].options = [model |-> ireq[t].identifier.cls,
                                       local_path |-> fpath]]
    /\ ipc' = [ipc EXCEPT ![t] = "resolved"]
    /\ UNCHANGED <<wrapperVars, procVars, hostVars, runnerVars, tfhubCacheDir, ireq, ictx, iret,
                   lastSave, loadRes>>

\* lines 298-299: the tag is returned and the register scope is left
ImportReturn(t) ==
    /\ ipc[t] = "resolved"
    /\ entries' = RegisterCommit(entries, ictx[t])
    /\ iret' = [iret EXCEPT ![t] = "tag"]
    /\ ipc' = [ipc EXCEPT ![t] = "idle"]
    /\ ictx' = [ictx EXCEPT ![t] = 0]
    /\ ireq' = [ireq EXCEPT ![t] = NoRequest]
    /\ ifpath' = [ifpath EXCEPT ![t] = NoPath]
    /\ UNCHANGED <<wrapperVars, procVars, hostVars, runnerVars, tfhubCacheDir, lastSave, loadRes>>

Import(t) ==
    \/ ImportBegin(t)
    \/ ImportSetEnv(t)
    \/ ImportResolve(t)
    \/ ImportObject(t)
    \/ ImportReturn(t)

StoreRestIdle ==
    /\ tfhubCacheDir = 0
    /\ ipc = [t \in Threads |-> "idle"]
    /\ ireq = [t \in Threads |-> NoRequest]
    /\ ictx = [t \in Threads |-> 0]
    /\ ifpath = [t \in Threads |-> NoPath]
    /\ iret = [t \in Threads |-> "none"]
    /\ lastSave = NoSave
    /\ loadRes = NoLoad

StoreIdle == entries = <<>> /\ StoreRestIdle

----------------------------------------------------------------------------
(* _TensorflowRunner *)

\* a device name or identifier is the sequence of its pieces
Digits == <<"0", "1", "2", "3", "4">>

\* device_lib.list_local_devices(): the CPU and the host's GPUs
LocalDeviceNames ==
    {<<"/device:", "CPU", ":", "0">>}
    \cup {<<"/device:", "GPU", ":", Digits[i]>> : i \in 1..numGpus}

\* a in b, for strings
IsSubstring(a, b) ==
    \E k \in 0..(Len(b) - Len(a)) : SubSeq(b, k + 1, k + Len(a)) = a

DeviceIds ==
    {<<"CPU", ":", "0">>, <<"GPU", ":", "0">>, <<"GPU", ":", "1">>, <<"GPU">>,
     <<"TPU", ":", "0">>}

AllVisible == <<"*">>

\* lines 86-90: without tf.config.list_physical_devices the AttributeError is
\* caught and tf.test.is_gpu_available() answers
_is_gpu_available ==
    IF hasListPhysicalDevices THEN numGpus > 0 ELSE numGpus # 0

\* round(): to the nearest integer, a tie to the even one; q is in quarters
PyRound(q) ==
    LET f == q \div 4
        r == q % 4
    IN  IF r < 2 THEN f
        ELSE IF r > 2 THEN f + 1
        ELSE IF f % 2 = 0 THEN f ELSE f + 1

PropValue(v) == [err |-> "none", val |-> v]
PropError(e) == [err |-> e, val |-> 0]

\* lines 403-407
num_concurrency_per_replica(on_gpu, cpuQ) ==
    IF _is_gpu_available /\ on_gpu THEN PropValue(1) ELSE PropValue(PyRound(cpuQ))

\* lines 409-413: tf.config.list_physical_devices is called unguarded here
num_replica(on_gpu) ==
    IF _is_gpu_available /\ on_gpu
    THEN IF hasListPhysicalDevices THEN PropValue(numGpus)
         ELSE PropError("AttributeError")
    ELSE PropValue(1)

NoRunner ==
    [tag |-> 0, predict_fn_name |-> "", device |-> <<>>, on_gpu |-> FALSE, cpuQ |-> 0,
     threads |-> 0, session |-> FALSE, model |-> "unset", predict_fn |-> "unset"]

NoCtorArgs == [tag |-> 0, predict_fn_name |-> "", device_id |-> <<>>,
               on_gpu |-> FALSE, cpuQ |-> 0]

\* a slip: only the device type is looked for among the local devices
DeviceFound_TypeOnly(device_id) ==
    \E d \in LocalDeviceNames : device_id # <<>> => IsSubstring(<<device_id[1]>>, d)

\* line 384: any(device_id in d.name for d in device_lib.list_local_devices())
DeviceFound(device_id) == \E d \in LocalDeviceNames : IsSubstring(device_id, d)

\* lines 387-397: what _configure sets visible (line 390-391)
VisibleAfterConfigure(device_id) ==
    IF TF2 /\ IsSubstring(<<"GPU">>, device_id) THEN device_id ELSE visibleGpus

\* lines 372-385: __init__, with _configure (line 382) before the check of line 384
RunnerConstruct ==
    /\ rpc = "none"
    /\ \E tag \in 1..(Len(entries) + 1), predict_fn_name \in {"__call__", "predict"},
          device_id \in DeviceIds, on_gpu \in BOOLEAN, cpuQ \in 0..MaxCpuQuarters :
          /\ ctorArgs' = [tag |-> tag, predict_fn_name |-> predict_fn_name,
                          device_id |-> device_id, on_gpu |-> on_gpu, cpuQ |-> cpuQ]
          /\ visibleGpus' = VisibleAfterConfigure(device_id)
          /\ configureCalls' = configureCalls + 1
          /\ IF DeviceFound(device_id)
             THEN /\ runner' = [NoRunner EXCEPT
                        !.tag = tag, !.predict_fn_name = predict_fn_name,
                        !.device = device_id, !.on_gpu = on_gpu, !.cpuQ = cpuQ,
                        !.threads = num_concurrency_per_replica(on_gpu, cpuQ).val]
                  /\ rpc' = "constructed"
                  /\ ctorRes' = "ok"
             ELSE /\ runner' = NoRunner
                  /\ rpc' = "failed"
                  /\ ctorRes' = "AssertionError"
    /\ UNCHANGED <<wrapperVars, procVars, storeVars, hostVars,
                   loadCalls, setupRes, propRes, runRes>>

NoProp == [prop |-> "none", err |-> "none", val |-> 0]

GetNumReplica ==
    /\ rpc = "constructed"
    /\ LET r == num_replica(runner.on_gpu)
       IN  propRes' = [prop |-> "num_replica", err |-> r.err, val |-> r.val]
    /\ UNCHANGED <<wrapperVars, procVars, storeVars, hostVars, visibleGpus, rpc,
                   ctorArgs, ctorRes, runner, configureCalls, loadCalls, setupRes,
                   runRes>>

GetNumConcurrencyPerReplica ==
    /\ rpc = "constructed"
    /\ LET r == num_concurrency_per_replica(runner.on_gpu, runner.cpuQ)
       IN  propRes' = [prop |-> "num_concurrency_per_replica",
                       err |-> r.err, val |-> r.val]
    /\ UNCHANGED <<wrapperVars, procVars, storeVars, hostVars, visibleGpus, rpc,
                   ctorArgs, ctorRes, runner, configureCalls, loadCalls, setupRes,
                   runRes>>

\* the attributes a loaded model offers to getattr
ModelAttrs == {"__call__"}

\* what load raises instead of returning a model
LoadExceptions ==
    {"NotFound", "AssertionError", "AttributeError", "NotImplementedError"}

\* a slip: the wrapper is asked for, as load's docstring says is the default
SetupLoadAsWrapper_True == "True"

\* line 421: load(self.name, model_store=...) leaves load_as_wrapper at its
\* default, None
SetupLoadAsWrapper == "None"

\* lines 416-425: the session is created, then load is called with the tag and
\* the store only. _setup is not called again once it has succeeded.
RunnerSetup ==
    /\ rpc = "constructed"
    /\ setupRes # "ok"
    /\ loadCalls < MaxSetups
    /\ loadCalls' = loadCalls + 1
    /\ LET m == LoadResult(entries, runner.tag, "None", FALSE, SetupLoadAsWrapper,
                           FALSE, TRUE)
       IN  IF m.kind \in LoadExceptions
           THEN /\ setupRes' = m.kind
                /\ runner' = [runner EXCEPT !.session = TRUE]
           ELSE IF TF2 /\ runner.predict_fn_name \notin ModelAttrs
           THEN /\ setupRes' = "AttributeError"
                /\ runner' = [runner EXCEPT !.session = TRUE, !.model = m.kind]
           ELSE /\ setupRes' = "ok"
                /\ runner' = [runner EXCEPT
                      !.session = TRUE, !.model = m.kind,
                      !.predict_fn = IF TF2 THEN runner.predict_fn_name
                                     ELSE "signatures[serving_default]"]
    /\ UNCHANGED <<wrapperVars, procVars, storeVars, hostVars, visibleGpus, rpc,
                   ctorArgs, ctorRes, configureCalls, propRes, runRes>>

NoRun == [input |-> "none", converted |-> FALSE, predict_called |-> FALSE,
          result |-> "none"]

\* lines 428-439
RunBatch ==
    /\ rpc = "constructed"
    /\ \E input \in {"list", "tf.Tensor"} :
          LET converted == input # "tf.Tensor"
          IN  IF ~TF2 /\ ~runner.session
              THEN \* self._session does not exist yet
                   runRes' = [input |-> input, converted |-> converted,
                              predict_called |-> FALSE, result |-> "AttributeError"]
              ELSE IF runner.predict_fn = "unset"
              THEN runRes' = [input |-> input, converted |-> converted,
                              predict_called |-> FALSE, result |-> "AttributeError"]
              ELSE runRes' = [input |-> input, converted |-> converted,
                              predict_called |-> TRUE,
                              result |-> IF TF2 THEN "res.numpy()"
                                         ELSE "res[prediction]"]
    /\ UNCHANGED <<wrapperVars, procVars, storeVars, hostVars, visibleGpus, rpc,
                   ctorArgs, ctorRes, runner, configureCalls, loadCalls, setupRes,
                   propRes>>

RunnerIdle ==
    /\ visibleGpus = AllVisible
    /\ rpc = "none"
    /\ ctorArgs = NoCtorArgs
    /\ ctorRes = "none"
    /\ runner = NoRunner
    /\ configureCalls = 0
    /\ loadCalls = 0
    /\ setupRes = "none"
    /\ propRes = NoProp
    /\ runRes = NoRun

\* a store after save("m1", <a directory>) and import_from_tfhub(<a KerasLayer>)
StoreWithTwoEntries ==
    LET saved == SaveResult(<<>>, <<"m1">>,
                    [pathlike |-> TRUE, exists |-> TRUE, isdir |-> TRUE,
                     what |-> "dir"]).entries
        opened == RegisterEnter(saved, <<"KerasLayer", "UUID4">>, TRUE)
    IN  RegisterCommit(
            [opened EXCEPT ![2].content = {"saved_model"},
                           ![2].options = [model |-> "KerasLayer",
                                           local_path |-> resolve_local(2)]], 2)

----------------------------------------------------------------------------
(* Specifications *)

HostIdle == numGpus = 0 /\ hasListPhysicalDevices = TRUE

WrapperInit ==
    /\ WrapperIdle /\ TF2 = TRUE /\ hubInstalled = TRUE /\ StoreIdle
    /\ HostIdle /\ RunnerIdle

WrapperNext == Construct \/ Call

SpecWrapper == WrapperInit /\ [][WrapperNext]_vars

\* saves, loads and the imports of one thread
StoreInit ==
    /\ WrapperIdle /\ TF2 \in BOOLEAN /\ hubInstalled \in BOOLEAN /\ StoreIdle
    /\ HostIdle /\ RunnerIdle

StoreNext == Save \/ Load \/ Import("t1")

SpecStore == StoreInit /\ [][StoreNext]_vars

\* the imports of two threads of one process
ImportInit ==
    /\ WrapperIdle /\ TF2 = TRUE /\ hubInstalled \in BOOLEAN /\ StoreIdle
    /\ HostIdle /\ RunnerIdle

ImportNext == \E t \in Threads : Import(t)

SpecImport == ImportInit /\ [][ImportNext]_vars

\* one runner on a host, over a store that holds a plain and a hub-sourced entry
RunnerInit ==
    /\ WrapperIdle /\ TF2 \in BOOLEAN /\ hubInstalled = TRUE
    /\ entries = StoreWithTwoEntries /\ StoreRestIdle
    /\ numGpus \in 0..MaxGpus /\ hasListPhysicalDevices \in BOOLEAN
    /\ RunnerIdle

RunnerNext ==
    \/ RunnerConstruct
    \/ GetNumReplica
    \/ GetNumConcurrencyPerReplica
    \/ RunnerSetup
    \/ RunBatch

SpecRunner == RunnerInit /\ [][RunnerNext]_vars

----------------------------------------------------------------------------
(* Claims about _tf_function_wrapper, stated on the constructor's and the  *)
(* call's arguments (ctor, call), not on the wrapper's own attributes.     *)

\* the keys of the merged lookup: arg_names zipped with arg_specs, then kwarg_specs
MergedKeys ==
    (IF ctor.arg_names.some /\ ctor.arg_specs.some
     THEN {ctor.arg_names.v[i] :
              i \in 1..Min(Len(ctor.arg_names.v), Len(ctor.arg_specs.v))}
     ELSE {})
    \cup (IF ctor.kwarg_specs.some THEN DOMAIN ctor.kwarg_specs.v ELSE {})

\* the names of the first len(args) entries of arg_names
PositionalNames ==
    IF ctor.arg_names.some
    THEN {ctor.arg_names.v[i] : i \in 1..Min(Len(ctor.arg_names.v), Len(call.args))}
    ELSE {}

BuiltWithNoSpecs == ~ctor.arg_specs.some /\ ~ctor.kwarg_specs.some

\* C1: a wrapper built with no specs (arg_specs and kwarg_specs both None)
\* forwards every call: origin_func is invoked exactly once with the caller's
\* arguments unchanged, its result is returned, and nothing is raised.
C1_NoSpecsForwards ==
    (wpc = "called" /\ BuiltWithNoSpecs) =>
        /\ outcome = Returned(origin_func(call.args, call.kwargs))
        /\ originCalls = <<<<call.args, call.kwargs>>>>
        /\ casts = <<>>

\* C2: a call with a keyword name that is not a key of the merged lookup fails
\* with a TypeError naming such a key (the first one in call order), origin_func
\* is not invoked and no argument is coerced.
C2_UnknownKeywordRejected ==
    (wpc = "called" /\ KwKeys(call.kwargs) \ MergedKeys # {}) =>
        /\ outcome.kind = "TypeError"
        /\ outcome.msg = "unexpected keyword argument"
        /\ \E i \in 1..Len(call.kwargs) :
              /\ call.kwargs[i].key \notin MergedKeys
              /\ \A j \in 1..(i - 1) : call.kwargs[j].key \in MergedKeys
              /\ outcome.keys = {call.kwargs[i].key}
        /\ originCalls = <<>>
        /\ casts = <<>>

\* C2 witness: a call with two keywords, the second of them unknown, was rejected
C2_Witness ==
    /\ wpc = "called"
    /\ Len(call.kwargs) = 2
    /\ call.kwargs[1].key \in MergedKeys
    /\ call.kwargs[2].key \notin MergedKeys
    /\ outcome.kind = "TypeError"
    /\ outcome.keys = {call.kwargs[2].key}

\* C3 as stated: whenever a name given by position is also given by keyword the
\* call fails with the duplicate-argument error listing the conflicting names,
\* before any coercion and before origin_func.
C3_Original ==
    (wpc = "called" /\ PositionalNames \cap KwKeys(call.kwargs) # {}) =>
        /\ outcome = Raised("TypeError", "got two values for arguments",
                            PositionalNames \cap KwKeys(call.kwargs))
        /\ originCalls = <<>>
        /\ casts = <<>>

\* C3 amended: such a call always fails with a TypeError before any coercion
\* and before origin_func; the error is the duplicate-argument error listing
\* exactly the conflicting names when every keyword name is in the merged
\* lookup, and the unknown-keyword error otherwise.
C3_DuplicateRejected ==
    (wpc = "called" /\ PositionalNames \cap KwKeys(call.kwargs) # {}) =>
        /\ outcome.kind = "TypeError"
        /\ originCalls = <<>>
        /\ casts = <<>>
        /\ IF KwKeys(call.kwargs) \subseteq MergedKeys
           THEN outcome = Raised("TypeError", "got two values for arguments",
                                 PositionalNames \cap KwKeys(call.kwargs))
           ELSE outcome.msg = "unexpected keyword argument"

\* C3 witness: a duplicate among known keywords was rejected, with a further
\* parameter name left unused by the call
C3_Witness ==
    /\ wpc = "called"
    /\ KwKeys(call.kwargs) \subseteq MergedKeys
    /\ PositionalNames \cap KwKeys(call.kwargs) # {}
    /\ Len(ctor.arg_names.v) > Len(call.args)
    /\ outcome.msg = "got two values for arguments"

\* a call that passes both checks of the wrapper
ValidCall ==
    /\ ctor.arg_names.some
    /\ ctor.arg_specs.some
    /\ KwKeys(call.kwargs) \subseteq MergedKeys
    /\ PositionalNames \cap KwKeys(call.kwargs) = {}

\* C4: in a valid call with more positional arguments than positional specs,
\* origin_func receives every positional argument in order, the first
\* len(arg_specs) coerced and the trailing ones as given, and nothing is raised.
C4_TrailingArgsPassThrough ==
    (wpc = "called" /\ ValidCall /\ Len(call.args) > Len(ctor.arg_specs.v)) =>
        /\ outcome.kind = "return"
        /\ Len(originCalls) = 1
        /\ originCalls[1][1] =
              [i \in 1..Len(call.args) |->
                  IF i <= Len(ctor.arg_specs.v)
                  THEN cast_tensor_by_spec(call.args[i], ctor.arg_specs.v[i])
                  ELSE call.args[i]]

----------------------------------------------------------------------------
(* Claims about load, save and import_from_tfhub *)

C8_SaveScope ==
    [][lastSave'.id # lastSave.id =>
          /\ lastSave'.model \in {"file", "missing"} =>
                /\ lastSave'.result = "AssertionError"
                /\ lastSave'.tag = <<>>
                /\ entries'[lastSave'.id].content = {}
                /\ Committed(entries') = Committed(entries)
          /\ lastSave'.result = "tag" =>
                /\ lastSave'.id \notin Committed(entries)
                /\ Committed(entries') = Committed(entries) \cup {lastSave'.id}
                /\ lastSave'.tag = <<lastSave'.name, lastSave'.id>>
                /\ entries'[lastSave'.id].name = lastSave'.name
                /\ entries'[lastSave'.id].content # {}]_vars

\* C8 witness: after one entry was committed, a save of a file path failed
C8_Witness ==
    /\ lastSave.model = "file"
    /\ lastSave.result = "AssertionError"
    /\ Committed(entries) # {}
    /\ entries[lastSave.id].state = "discarded"

\* C9: in an import with a string identifier, TFHUB_CACHE_DIR is set to the
\* import's own entry path before resolve is called, resolve is called only
\* after that, and it resolves below whatever the variable holds at that
\* moment, which is the import's own path while no other thread has imported.
C9_CacheDirSetBeforeResolve ==
    [][\A t \in Threads :
          /\ (ipc[t] # "env_set" /\ ipc'[t] = "env_set") =>
                (ictx[t] # 0 /\ tfhubCacheDir' = ictx[t])
          /\ (ipc[t] # "resolved" /\ ipc'[t] = "resolved" /\ ireq[t].identifier.str) =>
                /\ ipc[t] = "env_set"
                /\ ifpath'[t].dir = tfhubCacheDir
                /\ entries'[ictx[t]].options.local_path = ifpath'[t]
                /\ (\A u \in Threads \ {t} : iret[u] = "none") =>
                      ifpath'[t].dir = ictx[t]]_vars

\* C9 witness: two committed imports, the local_path of one lying in the
\* storage location of the other, where the download went
C9_Witness ==
    \E i, j \in Committed(entries) :
        /\ i # j
        /\ entries[i].hub /\ entries[j].hub
        /\ entries[i].options.local_path.dir = j
        /\ entries[i].options.local_path.key # <<>>
        /\ "hub_download" \in entries[j].content

----------------------------------------------------------------------------
(* Claims about _TensorflowRunner *)

\* C6: constructing a runner with a device_id that is a substring of no local
\* device name fails with the device-validation error during construction; no
\* model load has been attempted and no runner object is returned.
C6_UnknownDeviceRejected ==
    (ctorRes # "none"
     /\ \A d \in LocalDeviceNames : ~IsSubstring(ctorArgs.device_id, d)) =>
        /\ ctorRes = "AssertionError"
        /\ rpc = "failed"
        /\ runner = NoRunner
        /\ loadCalls = 0
        /\ setupRes = "none"

\* C6 witness: a GPU of the right type but with a number the host does not
\* have was asked for, and the construction failed
C6_Witness ==
    /\ numGpus = 1
    /\ ctorArgs.device_id = <<"GPU", ":", "1">>
    /\ ctorRes = "AssertionError"
    /\ rpc = "failed"

\* C7: num_replica is the number of GPUs and num_concurrency_per_replica is 1
\* when the quota requests GPU and a GPU is there; otherwise num_replica is 1
\* and num_concurrency_per_replica is the CPU quota rounded to the nearest
\* integer.
C7_DerivedProperties ==
    LET gpu == ctorArgs.on_gpu /\ numGpus > 0
    IN  /\ propRes.prop = "num_replica" =>
              /\ propRes.err = "none"
              /\ propRes.val = IF gpu THEN numGpus ELSE 1
        /\ propRes.prop = "num_concurrency_per_replica" =>
              /\ propRes.err = "none"
              /\ IF gpu THEN propRes.val = 1
                 ELSE 4 * propRes.val - ctorArgs.cpuQ \in -2..2

\* C10: a construction that fails device validation has performed no device
\* configuration and has left the visible-device setting as it was.
C10_ConfiguredOnlyAfterValidation ==
    ctorRes = "AssertionError" =>
        /\ configureCalls = 0
        /\ visibleGpus = AllVisible

\* whether the runner's tag resolves to a hub-sourced entry of the store
BoundToHubEntry ==
    /\ ctorArgs.tag \in Committed(entries)
    /\ entries[ctorArgs.tag].hub

====
